---- MODULE Spec2Model ----
(***************************************************************************)
(* Model of two pieces of rubin_sim:                                       *)
(*   - PhotometricSelfCalUniformityMetric.run                              *)
(*     (maf/maf_contrib/selfcal_uniformity_metric.py), as a sequence of    *)
(*     steps over the metric object, the working directory and the value   *)
(*     handed back to the caller (specification Spec);                     *)
(*   - radar_factory and RadarAxes.plot (maf/runComparison/radarPlot.py),  *)
(*     over matplotlib's projection registry and the lines of an axes      *)
(*     (specifications RadarSpec and PlotSpec).                            *)
(* Floating-point quantities are carried as exact integers or fractions:   *)
(* residuals in integer units, fractions as <<numerator, denominator>>,    *)
(* angles in units of 1/(4*num_vars) of a full turn.                       *)
(***************************************************************************)
EXTENDS Integers, Sequences, FiniteSets

VARIABLES
    \* ---- the metric object (set by __init__) ----
    write_map,      \* self.write_map
    run_name,       \* self.run_name
    \* ---- the working directory ----
    files,          \* function: existing map file name -> content tag
    \* ---- one activation of run ----
    pc,             \* the step run is about to execute, "idle" outside run
    data_slice,     \* the rows passed to run; each row is its "filter" value
    filter_name,    \* local filter_name, "" while unset
    resid_map,      \* local resid_map, <<>> while unset
    res,            \* local result: <<>> while unset, else <<dict>>
    \* ---- what the caller of run sees ----
    outcome,        \* "none", "running", "returned" or "raised"
    result,         \* <<>> or <<dict>>: the value run returned
    failed,         \* the step whose failure propagated, "none" otherwise
    \* ---- history used to state the properties ----
    done,           \* the steps of this activation that completed, in order
    files0,         \* the working directory when run was called
    runs,           \* number of calls of run so far
    \* ---- radarPlot.py ----
    registry,       \* names in matplotlib's projection registry
    radar_cls,      \* <<>> or <<[num_vars, frame]>>: class registered as 'radar'
    reg_calls,      \* number of register_projection calls so far
    rf_calls,       \* number of radar_factory calls so far
    rf_frame,       \* frame argument of the last radar_factory call
    rf_num_vars,    \* num_vars argument of the last radar_factory call
    rf_exc,         \* exception raised by the last radar_factory call, or "none"
    rf_theta,       \* <<>> or <<theta>>: value the last radar_factory call returned
    lines,          \* lines created by the last RadarAxes.plot call: <<[x, y]>>
    plot_args,      \* the lines as passed to that plot call
    plots           \* number of plot calls so far

metricVars == <<write_map, run_name, files, pc, data_slice, filter_name, resid_map,
                res, outcome, result, failed, done, files0, runs>>
radarVars == <<registry, radar_cls, reg_calls, rf_calls, rf_frame, rf_num_vars,
               rf_exc, rf_theta, lines, plot_args, plots>>
vars == <<metricVars, radarVars>>

-----------------------------------------------------------------------------
\* Bounds of the model.
MaxRuns == 2        \* calls of run
MaxRows == 1        \* rows in a data slice
NPix == 3           \* pixels of the residual map (hp.nside2npix(nside_residual))
MaxResid == 9       \* largest residual value a map pixel takes

\* Program constants.
UNSEEN == -1000     \* hp.UNSEEN, below every residual
highglat_cut == 30  \* __init__ default
outlier_nsig == 4   \* __init__ default
\* median_abs_deviation(scale="normal") divides by 0.67449 = NormalNum/NormalDen
NormalNum == 67449
NormalDen == 100000

Filters == {"r", "i"}
RunNames == {"", "baseline"}
ResidVals == {-1, 0, MaxResid}
OldMap == <<0>>     \* content tag of a map file present before any run

\* f"monster_stars_{filter_name}_{self.run_name}.fits"
Fname(f, rn) == <<"monster_stars", f, rn, "fits">>
FileNames == {Fname(f, rn) : f \in Filters, rn \in RunNames}

RECURSIVE SeqsUpTo(_, _)
SeqsUpTo(S, n) ==
    IF n = 0 THEN {<<>>}
    ELSE LET shorter == SeqsUpTo(S, n - 1)
         IN shorter \cup {Append(s, x) : s \in {t \in shorter : Len(t) = n - 1}, x \in S}

Slices == SeqsUpTo(Filters, MaxRows)
Maps == [1..NPix -> ResidVals \cup {UNSEEN}]

Abs(x) == IF x < 0 THEN -x ELSE x

-----------------------------------------------------------------------------
\* Statistics of run, lines 123-152.

\* insertion of v into the ascending sequence s
RECURSIVE Insert(_, _)
Insert(s, v) ==
    IF s = <<>> THEN <<v>>
    ELSE IF v <= Head(s) THEN <<v>> \o s
    ELSE <<Head(s)>> \o Insert(Tail(s), v)

RECURSIVE Sorted(_)
Sorted(s) == IF s = <<>> THEN <<>> ELSE Insert(Sorted(Tail(s)), Head(s))

\* twice np.median of a non-empty sequence (the mean of the two middle values
\* for an even length, so the double is an integer)
Median2(s) ==
    LET t == Sorted(s)
        n == Len(t)
    IN IF n % 2 = 1 THEN 2 * t[(n + 1) \div 2] ELSE t[n \div 2] + t[n \div 2 + 1]

\* the values of map m at the pixels of the ascending pixel sequence ps
Take(m, ps) == [k \in 1..Len(ps) |-> m[ps[k]]]

\* the pixels of set P as an ascending sequence (np.where)
RECURSIVE Ascending(_)
Ascending(P) ==
    IF P = {} THEN <<>>
    ELSE LET hi == CHOOSE p \in P : \A q \in P : q <= p
         IN Append(Ascending(P \ {hi}), hi)

\* four times the raw median absolute deviation of a non-empty sequence:
\* MAD = median(|x - median(x)|)
Mad4(s) == Median2([k \in 1..Len(s) |-> Abs(2 * s[k] - Median2(s))])

\* ipring, = np.where(resid_map > hp.UNSEEN)
Ipring(m) == Ascending({p \in DOMAIN m : m[p] > UNSEEN})

\* galactic latitude in degrees of the centre of pixel p
\* (hp.pix2ang, then SkyCoord(...).galactic.b)
GalLat(p) == ((p * 50) % 181) - 90

\* high_glat = np.abs(b) > self.highglat_cut, as the selected pixels
HighGlat(ip) == SelectSeq(ip, LAMBDA p : Abs(GalLat(p)) > highglat_cut)

\* np.abs(v) > self.outlier_nsig * scatter, scatter = (mad4 / 4) / 0.67449;
\* the scatter of an empty selection is nan and every comparison with it is False
IsOutlier(v, s) ==
    /\ s # <<>>
    /\ Abs(v) * 4 * NormalNum > outlier_nsig * Mad4(s) * NormalDen

\* highscat.sum()
CountOutliers(s) == Cardinality({k \in 1..Len(s) : IsOutlier(s[k], s)})

\* scatter in mmag as a fraction of the raw MAD (<<0, 0>> is nan)
ScatterMmag(s) == IF s = <<>> THEN <<0, 0>> ELSE <<Mad4(s) * 1000, 4>>

\* outlier_frac_highglat = highscat.sum() / len(ipring), line 141
OutlierFracHighglat(m) ==
    <<CountOutliers(Take(m, HighGlat(Ipring(m)))), Len(Ipring(m))>>

\* outlier_frac_full = highscat.sum() / len(ipring), line 129
OutlierFracFull(m) == <<CountOutliers(Take(m, Ipring(m))), Len(Ipring(m))>>

\* the result dict of lines 147-152
StatsResult(m) ==
    [scatter_full |-> ScatterMmag(Take(m, Ipring(m))),
     scatter_highglat |-> ScatterMmag(Take(m, HighGlat(Ipring(m)))),
     outlier_frac_full |-> OutlierFracFull(m),
     outlier_frac_highglat |-> OutlierFracHighglat(m)]

-----------------------------------------------------------------------------
\* The steps of run, in program order.
StepOrder == <<"filter", "catalog", "solve", "healbin", "stats", "write", "embed",
               "return">>

IndexOf(step) == CHOOSE k \in 1..Len(StepOrder) : StepOrder[k] = step
StepAfter(step) == StepOrder[IndexOf(step) + 1]

\* the activation's locals disappear when run is left
DropLocals ==
    /\ data_slice' = <<>>
    /\ filter_name' = ""
    /\ resid_map' = <<>>
    /\ res' = <<>>


\* Completing `step` normally: control moves to the next statement.
Advance(step) ==
    /\ pc' = StepAfter(step)
    /\ done' = Append(done, step)
    /\ UNCHANGED <<outcome, result, failed>>

\* Variant of Raise: the failing statement sits in a try/except that swallows
\* the exception, and run carries on with the next statement.
RaiseSwallowed(step) ==
    /\ pc' = StepAfter(step)
    /\ failed' = step
    /\ UNCHANGED <<outcome, result, done, data_slice, filter_name, resid_map, res>>

\* run has no try/except: an exception raised in `step` leaves run at once and
\* reaches the caller, and no value is returned.
Raise(step) ==
    /\ pc' = "idle"
    /\ outcome' = "raised"
    /\ failed' = step
    /\ result' = <<>>
    /\ DropLocals
    /\ UNCHANGED done

\* metric.run(data_slice), line 61
Call(ds) ==
    /\ pc = "idle"
    /\ runs < MaxRuns
    /\ runs' = runs + 1
    /\ pc' = "filter"
    /\ data_slice' = ds
    /\ filter_name' = ""
    /\ resid_map' = <<>>
    /\ res' = <<>>
    /\ outcome' = "running"
    /\ result' = <<>>
    /\ failed' = "none"
    /\ done' = <<>>
    /\ files0' = files
    /\ UNCHANGED <<write_map, run_name, files, radarVars>>

\* filter_name = data_slice["filter"][0], line 62: IndexError on an empty slice
ReadFilter ==
    /\ pc = "filter"
    /\ \/ /\ Len(data_slice) > 0
          /\ filter_name' = data_slice[1]
          /\ Advance("filter")
          /\ UNCHANGED <<data_slice, resid_map, res>>
       \/ /\ Len(data_slice) = 0
          /\ Raise("filter")
    /\ UNCHANGED <<write_map, run_name, files, files0, runs, radarVars>>

\* lines 64-92: build visits, select the stars, generate_catalog(...)
GenerateCatalog ==
    /\ pc = "catalog"
    /\ \/ /\ Advance("catalog")
          /\ UNCHANGED <<data_slice, filter_name, resid_map, res>>
       \/ Raise("catalog")
    /\ UNCHANGED <<write_map, run_name, files, files0, runs, radarVars>>

\* lines 94-104: LsqrSolver(observed_stars), solver.run(), solver.return_solution()
Solve ==
    /\ pc = "solve"
    /\ \/ /\ Advance("solve")
          /\ UNCHANGED <<data_slice, filter_name, resid_map, res>>
       \/ Raise("solve")
    /\ UNCHANGED <<write_map, run_name, files, files0, runs, radarVars>>

\* lines 106-121: match the stars, form the residuals, healbin them into a map;
\* the map depends on the catalog and the solution, so any map can come out
Healbin ==
    /\ pc = "healbin"
    /\ \/ /\ \E m \in Maps : resid_map' = m
          /\ Advance("healbin")
          /\ UNCHANGED <<data_slice, filter_name, res>>
       \/ Raise("healbin")
    /\ UNCHANGED <<write_map, run_name, files, files0, runs, radarVars>>

\* lines 123-152: the statistics and the result dict
Stats ==
    /\ pc = "stats"
    /\ \/ /\ res' = <<StatsResult(resid_map)>>
          /\ Advance("stats")
          /\ UNCHANGED <<data_slice, filter_name, resid_map>>
       \/ Raise("stats")
    /\ UNCHANGED <<write_map, run_name, files, files0, runs, radarVars>>

\* Variant of WriteMapFiles: hp.write_map(..., overwrite=True) without the
\* os.path.isfile test.
WriteMapFilesOverwrite ==
    LET fname == Fname(filter_name, run_name)
    IN IF write_map
       THEN [f \in DOMAIN files \cup {fname} |->
                IF f = fname THEN <<runs>> ELSE files[f]]
       ELSE files

\* lines 155-161: the effect of the write step on the working directory when
\* it completes
WriteMapFiles ==
    LET fname == Fname(filter_name, run_name)
    IN IF write_map /\ fname \notin DOMAIN files
       THEN [f \in DOMAIN files \cup {fname} |->
                IF f = fname THEN <<runs>> ELSE files[f]]
       ELSE files

\* lines 155-161; hp.write_map can fail, leaving no file or a truncated one
WriteMap ==
    /\ pc = "write"
    /\ \/ /\ files' = WriteMapFiles
          /\ Advance("write")
          /\ UNCHANGED <<data_slice, filter_name, resid_map, res>>
       \/ /\ WriteMapFiles # files
          /\ \/ files' = files
             \/ files' = [f \in DOMAIN WriteMapFiles |->
                            IF f \in DOMAIN files THEN files[f] ELSE <<-runs>>]
          /\ Raise("write")
    /\ UNCHANGED <<write_map, run_name, files0, runs, radarVars>>

\* lines 163-164: import IPython; IPython.embed() opens an interactive shell
Embed ==
    /\ pc = "embed"
    /\ \/ /\ pc' = "embedded"
          /\ UNCHANGED <<done, outcome, result, failed, data_slice, filter_name,
                         resid_map, res>>
       \/ Raise("embed")
    /\ UNCHANGED <<write_map, run_name, files, files0, runs, radarVars>>

\* the user leaves the interactive shell and IPython.embed() returns
EmbedExit ==
    /\ pc = "embedded"
    /\ Advance("embed")
    /\ UNCHANGED <<data_slice, filter_name, resid_map, res>>
    /\ UNCHANGED <<write_map, run_name, files, files0, runs, radarVars>>

\* return result, line 165
Return ==
    /\ pc = "return"
    /\ result' = res
    /\ outcome' = "returned"
    /\ failed' = "none"
    /\ pc' = "idle"
    /\ done' = Append(done, "return")
    /\ DropLocals
    /\ UNCHANGED <<write_map, run_name, files, files0, runs, radarVars>>

-----------------------------------------------------------------------------------------------------------------------------------------------------
\* radarPlot.py

MaxVars == 5        \* largest num_vars passed to radar_factory
MaxCalls == 3       \* calls of radar_factory
MaxPlots == 1       \* calls of RadarAxes.plot
MaxLines == 2       \* lines one plot call creates
MaxPts == 2         \* points of a line passed to plot
MaxCoord == 1       \* largest coordinate of a point

Frames == {"circle", "polygon", "square"}

\* patch_dict = {'polygon': draw_poly_patch, 'circle': draw_circle_patch}
patch_dict == [f \in {"polygon", "circle"} |-> IF f = "polygon" THEN "draw_poly_patch"
                                                ELSE "draw_circle_patch"]

\* Angles of a chart with n axes are counted in units of 1/(4n) of a full turn,
\* so that 2*pi is 4n and pi/2 is n.
TwoPi(n) == 4 * n
HalfPi(n) == n

\* np.linspace(0, stop, num, endpoint=False): num samples, step stop/num
Linspace(stop, num) == [i \in 1..num |-> ((i - 1) * stop) \div num]

\* Variant of Theta: the rotation by pi/2 without the wrap-around.
ThetaNoWrap(n) ==
    LET t0 == Linspace(TwoPi(n), n)
    IN [i \in 1..n |-> t0[i] + HalfPi(n)]

\* lines 29-32: theta = linspace(0, 2pi, num_vars, endpoint=False);
\* theta += pi/2; theta = theta % (2pi)
Theta(n) ==
    LET t0 == Linspace(TwoPi(n), n)
        t1 == [i \in 1..n |-> t0[i] + HalfPi(n)]
    IN [i \in 1..n |-> t1[i] % TwoPi(n)]

\* register_projection(RadarAxes): the class is stored under its name 'radar',
\* replacing a class registered under that name before
RegisterProjection(cls) ==
    /\ registry' = registry \cup {"radar"}
    /\ radar_cls' = <<cls>>
    /\ reg_calls' = reg_calls + 1

\* Variant of RadarFactory: the class is registered before frame is validated.
RadarFactoryRegistersFirst(n, frame) ==
    /\ rf_calls < MaxCalls
    /\ rf_calls' = rf_calls + 1
    /\ rf_frame' = frame
    /\ rf_num_vars' = n
    /\ RegisterProjection([num_vars |-> n, frame |-> frame, draw_patch |-> "unset"])
    /\ IF frame \notin DOMAIN patch_dict
       THEN /\ rf_exc' = "ValueError"
            /\ rf_theta' = <<>>
       ELSE /\ rf_exc' = "none"
            /\ rf_theta' = <<Theta(n)>>
    /\ UNCHANGED <<lines, plot_args, plots, metricVars>>

\* radar_factory(num_vars, frame), lines 15-97
RadarFactory(n, frame) ==
    /\ rf_calls < MaxCalls
    /\ rf_calls' = rf_calls + 1
    /\ rf_frame' = frame
    /\ rf_num_vars' = n
    /\ IF frame \notin DOMAIN patch_dict
       THEN /\ rf_exc' = "ValueError"
            /\ rf_theta' = <<>>
            /\ UNCHANGED <<registry, radar_cls, reg_calls>>
       ELSE /\ RegisterProjection([num_vars |-> n, frame |-> frame,
                                   draw_patch |-> patch_dict[frame]])
            /\ rf_exc' = "none"
            /\ rf_theta' = <<Theta(n)>>
    /\ UNCHANGED <<lines, plot_args, plots, metricVars>>

\* RadarAxes._close_line, lines 65-71
CloseLine(line) ==
    IF line.x[1] # line.x[Len(line.x)]
    THEN [x |-> Append(line.x, line.x[1]), y |-> Append(line.y, line.y[1])]
    ELSE line

Coords == 0..MaxCoord
\* the lines PolarAxes.plot builds from its arguments: x and y of equal length
LineData == UNION {{[x |-> xs, y |-> ys] : xs \in [1..n -> Coords], ys \in [1..n -> Coords]} :
                    n \in 1..MaxPts}
PlotArgs == UNION {[1..k -> LineData] : k \in 1..MaxLines}

\* RadarAxes.plot(*args), lines 59-63, on an axes made with projection='radar'
Plot(ls) ==
    /\ "radar" \in registry
    /\ plots < MaxPlots
    /\ plots' = plots + 1
    /\ plot_args' = ls
    /\ lines' = [k \in 1..Len(ls) |-> CloseLine(ls[k])]
    /\ UNCHANGED <<registry, radar_cls, reg_calls, rf_calls, rf_frame, rf_num_vars,
                   rf_exc, rf_theta, metricVars>>

-----
\* State after PhotometricSelfCalUniformityMetric(...) in a working directory
\* that may already hold map files of this run_name.
InitMetric ==
    /\ write_map \in BOOLEAN
    /\ run_name \in RunNames
    /\ \E present \in SUBSET {Fname(f, run_name) : f \in Filters} :
          files = [f \in present |-> OldMap]
    /\ pc = "idle"
    /\ data_slice = <<>>
    /\ filter_name = ""
    /\ resid_map = <<>>
    /\ res = <<>>
    /\ outcome = "none"
    /\ result = <<>>
    /\ failed = "none"
    /\ done = <<>>
    /\ files0 = files
    /\ runs = 0

\* matplotlib before any radar_factory call
InitRadar ==
    /\ registry = {"polar", "rectilinear"}
    /\ radar_cls = <<>>
    /\ reg_calls = 0
    /\ rf_calls = 0
    /\ rf_frame = ""
    /\ rf_num_vars = 0
    /\ rf_exc = "none"
    /\ rf_theta = <<>>
    /\ lines = <<>>
    /\ plot_args = <<>>
    /\ plots = 0

Init == InitMetric /\ InitRadar

Next ==
    \/ \E ds \in Slices : Call(ds)
    \/ ReadFilter
    \/ GenerateCatalog
    \/ Solve
    \/ Healbin
    \/ Stats
    \/ WriteMap
    \/ Embed
    \/ EmbedExit
    \/ Return

Spec == Init /\ [][Next]_vars

\* radarPlot.py alone, next to a metric object built with its defaults
RadarInit ==
    /\ InitRadar
    /\ InitMetric
    /\ write_map = TRUE
    /\ run_name = ""
    /\ files = <<>>

\* radar_factory called repeatedly
RadarNext == \E n \in 0..MaxVars, frame \in Frames : RadarFactory(n, frame)

RadarSpec == RadarInit /\ [][RadarNext]_vars

\* radar_factory, then plotting on axes of the registered projection
PlotNext ==
    \/ \E n \in 0..MaxVars, frame \in Frames : RadarFactory(n, frame)
    \/ \E ls \in PlotArgs : Plot(ls)

PlotSpec == RadarInit /\ [][PlotNext]_vars

-----------------------------------------------------------------------------
\* Properties of PhotometricSelfCalUniformityMetric.run (under Spec)

\* C1: run never overwrites or modifies an existing map file. The working
\* directory changes only in the write step, only when write_map is true and
\* no file named monster_stars_<filter>_<run_name>.fits exists, and then only
\* by gaining that one file; a write step that completes in that situation does
\* create the file; and the value run returns is the result computed from the
\* residual map by the statistics, whatever the write step did.
C1_NeverOverwrites ==
    [][LET fname == Fname(filter_name, run_name)
       IN /\ files' # files =>
                /\ pc = "write"
                /\ write_map
                /\ fname \notin DOMAIN files
                /\ DOMAIN files' = DOMAIN files \cup {fname}
                /\ \A f \in DOMAIN files : files'[f] = files[f]
          /\ (pc = "write" /\ pc' = "embed" /\ write_map /\ fname \notin DOMAIN files)
                => fname \in DOMAIN files'
          /\ (pc = "return" /\ outcome' = "returned")
                => result' = <<StatsResult(resid_map)>>]_vars

\* a second call has passed its write step with write_map true while the map
\* written by the first call is still there, untouched
C1_Witness ==
    /\ runs = 2
    /\ pc = "embed"
    /\ write_map
    /\ Fname(filter_name, run_name) \in DOMAIN files
    /\ files[Fname(filter_name, run_name)] = <<1>>

\* C3: run catches no exception. When a step fails, the failure reaches the
\* caller, no result is returned, exactly the steps before the failing one have
\* run (none after it), and a failure before the write step leaves the working
\* directory as it was when run was called.
C3_FailurePropagates ==
    failed # "none" =>
        /\ outcome = "raised"
        /\ pc = "idle"
        /\ result = <<>>
        /\ done = SubSeq(StepOrder, 1, IndexOf(failed) - 1)
        /\ (IndexOf(failed) < IndexOf("write") => files = files0)

\* the map was about to be written (write_map true, no such file) when healbin
\* failed: nothing was written and nothing was returned
C3_Witness ==
    /\ failed = "healbin"
    /\ write_map
    /\ files = <<>>
    /\ result = <<>>
    /\ runs = 1

\* C7: outlier_frac_highglat is the number of high-latitude outlier pixels
\* divided by the number of filled high-latitude pixels (so it is 1 when every
\* high-latitude pixel is an outlier), outlier_frac_full is the number of
\* outliers divided by the number of filled pixels, and both lie in [0, 1].
C7_HighglatFraction ==
    res # <<>> =>
        LET ip == Ipring(resid_map)
            hi == HighGlat(ip)
            nOutHi == CountOutliers(Take(resid_map, hi))
            nOutAll == CountOutliers(Take(resid_map, ip))
            fh == res[1].outlier_frac_highglat
            ff == res[1].outlier_frac_full
        IN Len(hi) > 0 =>
              /\ fh[2] > 0
              /\ fh[1] * Len(hi) = nOutHi * fh[2]
              /\ (nOutHi = Len(hi) => fh[1] = fh[2])
              /\ 0 <= fh[1] /\ fh[1] <= fh[2]
              /\ ff[2] > 0
              /\ ff[1] * Len(ip) = nOutAll * ff[2]
              /\ 0 <= ff[1] /\ ff[1] <= ff[2]

\* C8: a call of run on a non-empty slice whose library calls succeed returns
\* without ever waiting for interactive input, and what it returns is a dict
\* with exactly the four keys, after the steps catalog generation, solve,
\* statistics, map write, return in that order.
C8_ReturnsWithoutWaiting ==
    /\ pc # "embedded"
    /\ outcome = "returned" =>
          /\ result # <<>>
          /\ DOMAIN result[1] = {"scatter_full", "scatter_highglat",
                                 "outlier_frac_full", "outlier_frac_highglat"}
          /\ done = StepOrder

-----------------------------------------------------------------------------
\* Properties of radarPlot.py (C2 and C5 under RadarSpec, C4 under PlotSpec)

\* C2: radar_factory accepts only frame 'circle' or 'polygon'. A call with
\* another frame raises ValueError, leaves the projection registry and the
\* number of registrations as they were and returns no theta; a call with an
\* accepted frame registers 'radar' exactly once and returns theta.
C2_FrameValidation ==
    [][rf_calls' = rf_calls + 1 =>
          IF rf_frame' \notin {"circle", "polygon"}
          THEN /\ rf_exc' = "ValueError"
               /\ registry' = registry
               /\ radar_cls' = radar_cls
               /\ reg_calls' = reg_calls
               /\ rf_theta' = <<>>
          ELSE /\ rf_exc' = "none"
               /\ reg_calls' = reg_calls + 1
               /\ registry' = registry \cup {"radar"}
               /\ radar_cls' # <<>> /\ radar_cls'[1].frame = rf_frame'
               /\ Len(rf_theta') = 1]_vars

\* a rejected call after an accepted one: the earlier registration stands
C2_Witness ==
    /\ rf_calls = 2
    /\ rf_exc = "ValueError"
    /\ reg_calls = 1
    /\ "radar" \in registry

\* C4: after plot returns, every line it created ends at its first point, in
\* x and in y, and a line that was passed in closed is left as it was.
C4_PlotClosesLines ==
    \A k \in DOMAIN lines :
        LET l == lines[k]
            a == plot_args[k]
        IN /\ l.x[Len(l.x)] = l.x[1]
           /\ l.y[Len(l.y)] = l.y[1]
           /\ (a.x[Len(a.x)] = a.x[1] /\ a.y[Len(a.y)] = a.y[1] => l = a)

\* C5: for num_vars >= 1 the returned theta has num_vars angles, the first a
\* quarter turn, each in [0, full turn), consecutive ones a 1/num_vars turn
\* apart modulo a full turn, all distinct, the i-th (from 0) being
\* (quarter turn + i * full turn / num_vars) modulo a full turn.
C5_EvenlySpacedAngles ==
    (rf_theta # <<>> /\ rf_num_vars >= 1) =>
        LET th == rf_theta[1]
            n == rf_num_vars
            full == 4 * n
            quarter == n
        IN /\ Len(th) = n
           /\ th[1] = quarter
           /\ \A i \in 1..n : th[i] >= 0 /\ th[i] < full
           /\ \A i \in 1..n : th[i] = (quarter + (i - 1) * 4) % full
           /\ \A i \in 1..(n - 1) : (th[i + 1] - th[i]) % full = 4
           /\ \A i, j \in 1..n : i # j => th[i] # th[j]

\* a chart with at least three axes whose last angle wrapped past the full turn
C5_Witness ==
    /\ rf_theta # <<>>
    /\ rf_num_vars >= 3
    /\ rf_theta[1][rf_num_vars] < rf_theta[1][1]

====
